---- MODULE Spec2Model ----
(***************************************************************************)
(* A model of allspeak/utils.py: locale-tag normalisation, extraction of   *)
(* the preferred locales of a request, locale negotiation, the per-request *)
(* locale/timezone lookup and the plural-form lookup.                      *)
(*                                                                         *)
(* Python strings are sequences of one-character strings, so that          *)
(* replace/lower/upper/split/strip/join and the ordering of strings are    *)
(* computed and not assumed.  A Python value is a record [kind, v].        *)
(***************************************************************************)
EXTENDS Integers, Sequences, FiniteSets, TLC

VARIABLES
  request,   \* the request object: its attributes and its GET parameters
  op,        \* the function called last ("init" before any call)
  arg,       \* the arguments of that call, the request apart
  ret,       \* what that call returned, or the exception it raised
  calls      \* how many get_request_* calls this request has been through

vars == <<request, op, arg, ret, calls>>

(***************************************************************************)
(* Bounds of the model.                                                    *)
(***************************************************************************)
MaxLen == 5        \* longest raw locale string given to locale_to_str
MaxEntries == 3    \* most entries of an Accept-Language header
MaxKeys == 2       \* most keys of a plural mapping
MaxCount == 11     \* largest count given to pluralize
MaxCalls == 3      \* most get_request_* calls on one request

(***************************************************************************)
(* Python values.                                                          *)
(***************************************************************************)
None == [kind |-> "None", v |-> <<>>]
Str(s) == [kind |-> "str", v |-> s]
PyInt(n) == [kind |-> "int", v |-> n]
List(l) == [kind |-> "list", v |-> l]
Dict(d) == [kind |-> "dict", v |-> d]
LocaleObj(language, territory) == [kind |-> "Locale", v |-> <<language, territory>>]
TzObj(name) == [kind |-> "tzinfo", v |-> name]
Raise(exc) == [kind |-> "raise", v |-> exc]

\* Python truthiness of the values used here
Truthy(x) ==
  CASE x.kind = "None" -> FALSE
    [] x.kind \in {"str", "list"} -> Len(x.v) > 0
    [] x.kind = "int" -> x.v # 0
    [] OTHER -> TRUE

\* Python `a or b`
Or(a, b) == IF Truthy(a) THEN a ELSE b

(***************************************************************************)
(* Python string operations.                                               *)
(***************************************************************************)
LowerCase == <<"a","b","c","d","e","f","g","h","i","j","k","l","m",
               "n","o","p","q","r","s","t","u","v","w","x","y","z">>
UpperCase == <<"A","B","C","D","E","F","G","H","I","J","K","L","M",
               "N","O","P","Q","R","S","T","U","V","W","X","Y","Z">>

\* the characters of the model in ASCII order
Ascii == <<" ", ",", "-", ".", "0","1","2","3","4","5","6","7","8","9",
           ";", "=">> \o UpperCase \o <<"_">> \o LowerCase

Ord(c) == CHOOSE i \in 1..Len(Ascii) : Ascii[i] = c

LowerChar(c) ==
  IF \E i \in 1..26 : UpperCase[i] = c
  THEN LowerCase[CHOOSE i \in 1..26 : UpperCase[i] = c] ELSE c

UpperChar(c) ==
  IF \E i \in 1..26 : LowerCase[i] = c
  THEN UpperCase[CHOOSE i \in 1..26 : LowerCase[i] = c] ELSE c

\* str.lower(), str.upper()
Lower(s) == [i \in 1..Len(s) |-> LowerChar(s[i])]
Upper(s) == [i \in 1..Len(s) |-> UpperChar(s[i])]

\* str.replace(a, b) for one-character a and b
Replace(s, a, b) == [i \in 1..Len(s) |-> IF s[i] = a THEN b ELSE s[i]]

\* str.split(sep) for a one-character sep
RECURSIVE Split(_, _)
Split(s, sep) ==
  IF \E i \in 1..Len(s) : s[i] = sep
  THEN LET k == CHOOSE i \in 1..Len(s) :
                  s[i] = sep /\ \A j \in 1..(i-1) : s[j] # sep
       IN  <<SubSeq(s, 1, k-1)>> \o Split(SubSeq(s, k+1, Len(s)), sep)
  ELSE <<s>>

\* sep.join(parts)
RECURSIVE Join(_, _)
Join(sep, parts) ==
  IF Len(parts) = 0 THEN <<>>
  ELSE IF Len(parts) = 1 THEN parts[1]
  ELSE parts[1] \o sep \o Join(sep, Tail(parts))

\* str.strip()
RECURSIVE Strip(_)
Strip(s) ==
  IF Len(s) = 0 THEN s
  ELSE IF s[1] = " " THEN Strip(Tail(s))
  ELSE IF s[Len(s)] = " " THEN Strip(SubSeq(s, 1, Len(s)-1))
  ELSE s

\* list[::-1]
Reverse(l) == [i \in 1..Len(l) |-> l[Len(l) + 1 - i]]

\* a < b on strings (by code point, shorter prefix first)
RECURSIVE StrLess(_, _)
StrLess(a, b) ==
  IF Len(b) = 0 THEN FALSE
  ELSE IF Len(a) = 0 THEN TRUE
  ELSE IF a[1] # b[1] THEN Ord(a[1]) < Ord(b[1])
  ELSE StrLess(Tail(a), Tail(b))

\* a < b on lists of strings
RECURSIVE ListLess(_, _)
ListLess(a, b) ==
  IF Len(b) = 0 THEN FALSE
  ELSE IF Len(a) = 0 THEN TRUE
  ELSE IF a[1] # b[1] THEN StrLess(a[1], b[1])
  ELSE ListLess(Tail(a), Tail(b))

\* sorted(l) on a list of lists of strings: a stable insertion sort
RECURSIVE Insert(_, _)
Insert(x, l) ==
  IF Len(l) = 0 THEN <<x>>
  ELSE IF ListLess(x, l[1]) THEN <<x>> \o l
  ELSE <<l[1]>> \o Insert(x, Tail(l))

RECURSIVE Sorted(_)
Sorted(l) ==
  IF Len(l) = 0 THEN <<>>
  ELSE Insert(l[Len(l)], Sorted(SubSeq(l, 1, Len(l)-1)))

(***************************************************************************)
(* split_locale, locale_to_str                                             *)
(***************************************************************************)
\* split_locale without the replacement of "-" by "_"
split_locale_keeps_dash(locale) ==
  IF locale.kind = "Locale"
  THEN IF Len(locale.v[2]) > 0
       THEN <<Lower(locale.v[1]), Upper(locale.v[2])>>
       ELSE <<Lower(locale.v[1])>>
  ELSE LET tloc == Split(Lower(locale.v), "_")
       IN  IF Len(tloc) > 1
           THEN [tloc EXCEPT ![Len(tloc)] = Upper(tloc[Len(tloc)])]
           ELSE tloc

\* the tuple split_locale returns (a sequence of strings)
split_locale(locale) ==
  IF locale.kind = "Locale"
  THEN IF Len(locale.v[2]) > 0
       THEN <<Lower(locale.v[1]), Upper(locale.v[2])>>
       ELSE <<Lower(locale.v[1])>>
  ELSE LET tloc == Split(Lower(Replace(locale.v, "-", "_")), "_")
       IN  IF Len(tloc) > 1
           THEN [tloc EXCEPT ![Len(tloc)] = Upper(tloc[Len(tloc)])]
           ELSE tloc

locale_to_str(locale) == Str(Join(<<"_">>, split_locale(locale)))

(***************************************************************************)
(* The request object.                                                     *)
(***************************************************************************)
GETNone == [locale |-> None, tzinfo |-> None]

EmptyRequest ==
  [accept_languages |-> None, accept_language |-> None, META |-> None,
   locale |-> None, tzinfo |-> None, GET |-> GETNone]

(***************************************************************************)
(* Specification of locale_to_str: a raw string or a Locale instance is    *)
(* normalised, and the result is normalised again.                         *)
(***************************************************************************)
Alphabet == {"n", "N", "u", "U", "-", "_"}

RECURSIVE StringsUpTo(_)
StringsUpTo(n) ==
  IF n = 0 THEN {<<>>}
  ELSE LET shorter == StringsUpTo(n - 1)
       IN  shorter \cup {Append(s, c) : s \in {t \in shorter : Len(t) = n - 1},
                                        c \in Alphabet}

LocaleInstances ==
  {LocaleObj(<<"e","n">>, <<>>), LocaleObj(<<"e","n">>, <<"U","S">>),
   LocaleObj(<<"f","r">>, <<"F","R">>)}

LocaleInputs == {Str(s) : s \in StringsUpTo(MaxLen)} \cup LocaleInstances

InitLocale ==
  /\ request = EmptyRequest
  /\ op = "init"
  /\ arg \in LocaleInputs
  /\ ret = None
  /\ calls = 0

LocaleToStr ==
  /\ op = "init"
  /\ op' = "locale_to_str"
  /\ ret' = locale_to_str(arg)
  /\ UNCHANGED <<request, arg, calls>>

LocaleToStrAgain ==
  /\ op = "locale_to_str"
  /\ op' = "locale_to_str_again"
  /\ ret' = locale_to_str(ret)
  /\ UNCHANGED <<request, arg, calls>>

NextLocale == LocaleToStr \/ LocaleToStrAgain

SpecLocale == InitLocale /\ [][NextLocale]_vars

IsLetter(c) == \E i \in 1..26 : c = LowerCase[i] \/ c = UpperCase[i]
IsSep(c) == c \in {"-", "_"}

\* s spells a language/REGION pair: letters, one separator, letters
IsPairSpelling(s) ==
  \E k \in 2..(Len(s) - 1) :
    /\ IsSep(s[k])
    /\ \A i \in 1..Len(s) : i # k => IsLetter(s[i])

\* the canonical tag of a spelling: language lower, "_", region upper
CanonicalTag(s) ==
  LET k == CHOOSE i \in 1..Len(s) : IsSep(s[i])
  IN  [i \in 1..Len(s) |-> IF i < k THEN LowerChar(s[i])
                           ELSE IF i = k THEN "_" ELSE UpperChar(s[i])]

\* C8: every spelling of a language/REGION pair (separator "-" or "_", any
\* case) is normalised by locale_to_str to lower-case language, "_",
\* upper-case region, and normalising a normalised tag changes nothing.
C8_NormalisationCanonicalIdempotent ==
  /\ [](op \in {"locale_to_str", "locale_to_str_again"}
          /\ arg.kind = "str" /\ IsPairSpelling(arg.v)
        => ret = Str(CanonicalTag(arg.v)))
  /\ [][op' = "locale_to_str_again" => ret' = ret]_vars

C8_Witness ==
  /\ op = "locale_to_str_again"
  /\ arg = Str(<<"N", "u", "-", "u", "N">>)
  /\ ret = Str(<<"n", "u", "_", "U", "N">>)

(***************************************************************************)
(* number_to_literal, pluralize                                            *)
(***************************************************************************)
Digits == <<"0","1","2","3","4","5","6","7","8","9">>

\* str(n) for an integer n
RECURSIVE IntToStr(_)
IntToStr(n) ==
  IF n < 0 THEN <<"-">> \o IntToStr(0 - n)
  ELSE IF n < 10 THEN <<Digits[n + 1]>>
  ELSE IntToStr(n \div 10) \o <<Digits[(n % 10) + 1]>>

\* A dict with integer and string keys: an integer key and a string key
\* are never equal, so the dict is a pair of maps.
\* dict.get(key, default)
DictGet(dic, key, default) ==
  IF key.kind = "int"
  THEN IF key.v \in DOMAIN dic.ints THEN dic.ints[key.v] ELSE default
  ELSE IF key.v \in DOMAIN dic.strs THEN dic.strs[key.v] ELSE default

zero == <<"z","e","r","o">>
one == <<"o","n","e">>
few == <<"f","e","w">>
many == <<"m","a","n","y">>

\* number_literal_equiv with 3 left out of 'few'
number_literal_equiv_without_three ==
  [ints |-> (0 :> Str(zero)) @@ (1 :> Str(one)) @@ (2 :> Str(few)),
   strs |-> (<<"0">> :> Str(zero)) @@ (<<"1">> :> Str(one))
            @@ (<<"2">> :> Str(few))]

number_literal_equiv ==
  [ints |-> (0 :> Str(zero)) @@ (1 :> Str(one)) @@ (2 :> Str(few))
            @@ (3 :> Str(few)),
   strs |-> (<<"0">> :> Str(zero)) @@ (<<"1">> :> Str(one))
            @@ (<<"2">> :> Str(few)) @@ (<<"3">> :> Str(few))]

number_to_literal(number) == DictGet(number_literal_equiv, number, Str(many))

\* pluralize trying 'n' before 'many'
pluralize_n_before_many(dic, count) ==
  LET cnt == IF count.kind = "None" THEN PyInt(0) ELSE count
      scount == Str(IntToStr(cnt.v))
      literal == number_to_literal(scount)
  IN  DictGet(dic, cnt,
        DictGet(dic, scount,
          DictGet(dic, literal,
            DictGet(dic, Str(<<"n">>),
              DictGet(dic, Str(many), Str(<<>>))))))

pluralize(dic, count) ==
  LET cnt == IF count.kind = "None" THEN PyInt(0) ELSE count
      scount == Str(IntToStr(cnt.v))
      literal == number_to_literal(scount)
  IN  DictGet(dic, cnt,
        DictGet(dic, scount,
          DictGet(dic, literal,
            DictGet(dic, Str(many),
              DictGet(dic, Str(<<"n">>), Str(<<>>))))))

(***************************************************************************)
(* Specification of pluralize: a mapping of at most MaxKeys keys and a     *)
(* count are chosen, pluralize is applied.  Every key carries a value of   *)
(* its own, so the value returned tells which key was hit.                 *)
(***************************************************************************)
CountInts == (0 - 2)..MaxCount

Counts == {None} \cup {PyInt(n) : n \in CountInts}

KeyUniverse ==
  {PyInt(n) : n \in CountInts} \cup {Str(IntToStr(n)) : n \in CountInts}
  \cup {Str(zero), Str(one), Str(few), Str(many), Str(<<"n">>),
        Str(<<"o","t","h","e","r">>)}

ValueOf(key) ==
  IF key.kind = "int" THEN Str(<<"i">> \o IntToStr(key.v))
  ELSE Str(<<"s">> \o key.v)

RECURSIVE KeySetsUpTo(_)
KeySetsUpTo(n) ==
  IF n = 0 THEN {{}}
  ELSE LET smaller == KeySetsUpTo(n - 1)
       IN  smaller \cup {K \cup {k} : K \in smaller, k \in KeyUniverse}

DictOf(K) ==
  [ints |-> [n \in {k.v : k \in {x \in K : x.kind = "int"}}
               |-> ValueOf(PyInt(n))],
   strs |-> [t \in {k.v : k \in {x \in K : x.kind = "str"}}
               |-> ValueOf(Str(t))]]

InitPlural ==
  /\ request = EmptyRequest
  /\ op = "init"
  /\ arg \in {[dic |-> DictOf(K), count |-> c] :
                K \in KeySetsUpTo(MaxKeys), c \in Counts}
  /\ ret = None
  /\ calls = 0

Pluralize ==
  /\ op = "init"
  /\ op' = "pluralize"
  /\ ret' = pluralize(arg.dic, arg.count)
  /\ UNCHANGED <<request, arg, calls>>

NextPlural == Pluralize

SpecPlural == InitPlural /\ [][NextPlural]_vars

HasKey(dic, key) ==
  IF key.kind = "int" THEN key.v \in DOMAIN dic.ints
  ELSE key.v \in DOMAIN dic.strs

\* the value of the first key of the sequence keys present in dic
RECURSIVE FirstPresent(_, _)
FirstPresent(dic, keys) ==
  IF Len(keys) = 0 THEN Str(<<>>)
  ELSE IF HasKey(dic, keys[1])
       THEN IF keys[1].kind = "int" THEN dic.ints[keys[1].v]
            ELSE dic.strs[keys[1].v]
  ELSE FirstPresent(dic, Tail(keys))

\* the count as an integer, None counting as 0
CountOf(c) == IF c.kind = "None" THEN 0 ELSE c.v

\* the plural category of an integer
Bucket(n) ==
  IF n = 0 THEN Str(zero)
  ELSE IF n = 1 THEN Str(one)
  ELSE IF n = 2 \/ n = 3 THEN Str(few)
  ELSE Str(many)

\* C4 as stated: pluralize returns the value of the first key present among
\* the count, its string form, its category name, then 'n', else ''.
C4_LookupOrderAsStated ==
  op = "pluralize" =>
    LET n == CountOf(arg.count)
    IN  ret = FirstPresent(arg.dic,
                <<PyInt(n), Str(IntToStr(n)), Bucket(n), Str(<<"n">>)>>)

\* C4 amended: pluralize returns the value of the first key present among
\* the count, its string form, its category name, 'many', then 'n', else ''.
C4_LookupOrderWithMany ==
  op = "pluralize" =>
    LET n == CountOf(arg.count)
    IN  ret = FirstPresent(arg.dic,
                <<PyInt(n), Str(IntToStr(n)), Bucket(n), Str(many),
                  Str(<<"n">>)>>)

\* count 1, no 'one' key: 'many' is hit before 'n'
C4_Witness ==
  /\ op = "pluralize"
  /\ arg.count = PyInt(1)
  /\ arg.dic = DictOf({Str(many), Str(<<"n">>)})
  /\ ret = ValueOf(Str(many))

CategoryKeys == {Str(zero), Str(one), Str(few), Str(many)}

\* C7: with no key for the count or its string form, pluralize uses the
\* category 0 -> zero, 1 -> one, 2 and 3 -> few, every other integer -> many,
\* and never the value of another category; a count of None gives what the
\* count 0 gives.
C7_BucketRule ==
  op = "pluralize" =>
    LET n == CountOf(arg.count)
        dic == arg.dic
    IN  /\ (~HasKey(dic, PyInt(n)) /\ ~HasKey(dic, Str(IntToStr(n)))) =>
             /\ HasKey(dic, Bucket(n)) => ret = dic.strs[Bucket(n).v]
             /\ \A c \in CategoryKeys \ {Bucket(n), Str(many)} :
                  HasKey(dic, c) => ret # dic.strs[c.v]
        /\ arg.count = None => ret = FirstPresent(dic,
             <<PyInt(0), Str(<<"0">>), Str(zero), Str(many), Str(<<"n">>)>>)

\* count 3 with the keys 'few' and 'many': the 'few' value is returned
C7_Witness ==
  /\ op = "pluralize"
  /\ arg.count = PyInt(3)
  /\ arg.dic = DictOf({Str(few), Str(many)})
  /\ ret = ValueOf(Str(few))

(***************************************************************************)
(* The preferred locales of a request.                                     *)
(***************************************************************************)
\* [ '_'.join(split_locale(l)) for l in languages ]
NormalizeAll(languages) ==
  [i \in 1..Len(languages) |-> locale_to_str(Str(languages[i])).v]

get_werkzeug_preferred_locales(req) ==
  LET languages == req.accept_languages
  IN  IF Truthy(languages) THEN List(NormalizeAll(languages.v)) ELSE None

get_webob_preferred_locales(req) ==
  LET languages == req.accept_language
  IN  IF Truthy(languages) THEN List(NormalizeAll(languages.v)) ELSE None

\* request.META is None or Dict(h), h the value of META.get('HTTP_ACCEPT_LANGUAGE')
get_django_preferred_locales(req) ==
  LET meta == req.META
  IN  IF ~Truthy(meta) THEN None
      ELSE
        LET header == meta.v
        IN  IF ~Truthy(header) THEN None
            ELSE
              LET entries == Split(header.v, ",")
                  split == [i \in 1..Len(entries) |->
                              Reverse(Split(Strip(entries[i]), ";"))]
                  languages == Reverse(Sorted(split))
              IN  IF \E i \in 1..Len(languages) : Len(languages[i]) < 2
                  THEN Raise("IndexError")
                  ELSE List([i \in 1..Len(languages) |->
                         locale_to_str(Str(Strip(languages[i][2]))).v])

\* a or b or c or [], an exception ending the evaluation
get_preferred_locales(req) ==
  LET w == get_werkzeug_preferred_locales(req)
  IN  IF Truthy(w) THEN w
      ELSE LET o == get_webob_preferred_locales(req)
           IN  IF Truthy(o) THEN o
               ELSE LET d == get_django_preferred_locales(req)
                    IN  IF d.kind = "raise" THEN d
                        ELSE IF Truthy(d) THEN d ELSE List(<<>>)

(***************************************************************************)
(* The locale database (babel): the identifiers it knows, its aliases,     *)
(* Locale(...), Locale.parse and Locale.negotiate.                         *)
(***************************************************************************)
KnownLocales ==
  {<<"e","n">>, <<"e","n","_","U","S">>, <<"e","n","_","G","B">>,
   <<"f","r">>, <<"f","r","_","F","R">>,
   <<"d","e">>, <<"d","e","_","D","E">>}

LOCALE_ALIASES ==
  (<<"e","n">> :> <<"e","n","_","U","S">>)
  @@ (<<"f","r">> :> <<"f","r","_","F","R">>)
  @@ (<<"d","e">> :> <<"d","e","_","D","E">>)

\* Locale(language, territory): raises UnknownLocaleError for an unknown one
NewLocale(language, territory) ==
  LET identifier == IF Len(territory) > 0
                    THEN language \o <<"_">> \o territory ELSE language
  IN  IF identifier \in KnownLocales THEN LocaleObj(language, territory)
      ELSE Raise("UnknownLocaleError")

\* Locale.parse(identifier, sep='_')
ParseLocale(identifier) ==
  LET parts == Split(identifier, "_")
  IN  NewLocale(Lower(parts[1]),
                IF Len(parts) > 1 THEN Upper(parts[2]) ELSE <<>>)

InList(x, l) == \E i \in 1..Len(l) : l[i] = x

\* babel.core.negotiate_locale(preferred, available, sep='_'): the
\* identifier chosen, as a string value, or None
RECURSIVE BabelNegotiate(_, _)
BabelNegotiate(preferred, available) ==
  IF Len(preferred) = 0 THEN None
  ELSE
    LET locale == preferred[1]
        ll == Lower(locale)
        kept == SelectSeq(available, LAMBDA a : Len(a) > 0)
        avail == [i \in 1..Len(kept) |-> Lower(kept[i])]
        parts == Split(locale, "_")
    IN  IF InList(ll, avail) THEN Str(locale)
        ELSE IF ll \in DOMAIN LOCALE_ALIASES
                /\ InList(Lower(LOCALE_ALIASES[ll]), avail)
             THEN Str(LOCALE_ALIASES[ll])
        ELSE IF Len(parts) > 1 /\ InList(Lower(parts[1]), avail)
             THEN Str(parts[1])
        ELSE BabelNegotiate(Tail(preferred), available)

\* Locale.negotiate(preferred, available, sep='_')
LocaleNegotiate(preferred, available) ==
  LET identifier == BabelNegotiate(preferred, available)
  IN  IF Truthy(identifier) THEN ParseLocale(identifier.v) ELSE None

\* map(lambda l: l.replace('-', '_').lower(), tags)
LowerAll(tags) == [i \in 1..Len(tags) |-> Lower(Replace(tags[i], "-", "_"))]

\* negotiate_locale reading the request before it looks at available_locales
negotiate_locale_reads_first(req, available_locales) ==
  LET preferred == get_preferred_locales(req)
  IN  IF preferred.kind = "raise" THEN preferred
      ELSE IF ~Truthy(available_locales) THEN None
      ELSE IF Truthy(preferred)
      THEN LocaleNegotiate(LowerAll(preferred.v),
                           LowerAll(available_locales.v))
      ELSE None

negotiate_locale(req, available_locales) ==
  IF ~Truthy(available_locales) THEN None
  ELSE LET preferred == get_preferred_locales(req)
       IN  IF preferred.kind = "raise" THEN preferred
           ELSE IF Truthy(preferred)
           THEN LocaleNegotiate(LowerAll(preferred.v),
                                LowerAll(available_locales.v))
           ELSE None

(***************************************************************************)
(* Specification of the preferred locales and of negotiation: a request    *)
(* of one of the three shapes is chosen, then one of the functions is      *)
(* applied to it.                                                          *)
(***************************************************************************)
Tags == {<<"e","n">>, <<"f","r">>, <<"d","e">>, <<"e","n","-","G","B">>}

Suffixes ==
  {<<>>, <<";","q","=","0",".","5">>, <<";","q","=","0",".","9">>,
   <<";","q","=","b","o","g","u","s">>}

HeaderEntries == {t \o x : t \in Tags, x \in Suffixes}

RECURSIVE SeqsUpTo(_, _)
SeqsUpTo(S, n) ==
  IF n = 0 THEN {<<>>}
  ELSE LET shorter == SeqsUpTo(S, n - 1)
       IN  shorter \cup {Append(q, x) : q \in {t \in shorter : Len(t) = n - 1},
                                        x \in S}

Headers == {Join(<<",">>, es) : es \in SeqsUpTo(HeaderEntries, MaxEntries) \ {<<>>}}

TagLists == SeqsUpTo(Tags, 2) \ {<<>>}

HeaderRequests ==
  {[EmptyRequest EXCEPT !.META = Dict(Str(h))] : h \in Headers}
  \cup {[EmptyRequest EXCEPT !.META = Dict(None)], EmptyRequest}
  \cup {[EmptyRequest EXCEPT !.accept_languages = List(l)] : l \in TagLists}
  \cup {[EmptyRequest EXCEPT !.accept_language = List(l)] : l \in TagLists}
  \cup {[EmptyRequest EXCEPT !.accept_language = List(<<<<"f","r">>>>),
                             !.META = Dict(Str(<<"d","e">>))]}

AvailableLists ==
  {None, List(<<>>),
   List(<<<<"e","n">>>>),
   List(<<<<"f","r","-","f","r">>, <<"D","E">>>>),
   List(<<<<"e","n">>, <<"e","n","_","G","B">>, <<"f","r">>>>),
   List(<<<<"e","n","-","u","s">>>>)}

InitHeader ==
  /\ request \in HeaderRequests
  /\ op = "init"
  /\ arg = None
  /\ ret = None
  /\ calls = 0

GetDjangoPreferredLocales ==
  /\ op = "init"
  /\ op' = "get_django_preferred_locales"
  /\ ret' = get_django_preferred_locales(request)
  /\ UNCHANGED <<request, arg, calls>>

GetPreferredLocales ==
  /\ op = "init"
  /\ op' = "get_preferred_locales"
  /\ ret' = get_preferred_locales(request)
  /\ UNCHANGED <<request, arg, calls>>

NegotiateLocale ==
  /\ op = "init"
  /\ \E available \in AvailableLists :
       /\ arg' = available
       /\ ret' = negotiate_locale(request, available)
  /\ op' = "negotiate_locale"
  /\ UNCHANGED <<request, calls>>

NextHeader ==
  GetDjangoPreferredLocales \/ GetPreferredLocales \/ NegotiateLocale

SpecHeader == InitHeader /\ [][NextHeader]_vars

\* the entries of the header of a request, as written by the client
EntriesOf(req) == Split(req.META.v.v, ",")

HasHeader(req) == req.META.kind = "dict" /\ Truthy(req.META.v)

\* the tag of a header entry: the text before the first ";"
EntryTag(e) == Strip(Split(Strip(e), ";")[1])

DigitVal(c) == (CHOOSE i \in 1..10 : Digits[i] = c) - 1
IsDigit(c) == \E i \in 1..10 : Digits[i] = c

\* the quality of a header entry in tenths: "q=D.D" gives its value, an
\* entry with no suffix or with a malformed one has quality 1.0
Quality(e) ==
  LET parts == Split(Strip(e), ";")
      q == IF Len(parts) > 1 THEN Strip(parts[2]) ELSE <<>>
  IN  IF /\ Len(q) = 5 /\ q[1] = "q" /\ q[2] = "=" /\ IsDigit(q[3])
         /\ q[4] = "." /\ IsDigit(q[5])
      THEN 10 * DigitVal(q[3]) + DigitVal(q[5])
      ELSE 10

HasMalformedSuffix(e) ==
  LET parts == Split(Strip(e), ";")
  IN  Len(parts) > 1 /\ Quality(e) = 10

\* the normal form of a tag: language lower, "_", region upper
ExpectedTag(t) ==
  IF \E i \in 1..Len(t) : IsSep(t[i]) THEN CanonicalTag(t) ELSE Lower(t)

Orderings(n) ==
  {p \in [1..n -> 1..n] : \A i, j \in 1..n : p[i] = p[j] => i = j}

\* C1 as stated: for a header of comma-separated entries, with a well-formed
\* suffix, a malformed suffix or no suffix, get_django_preferred_locales does
\* not raise and returns a list of tag strings.
C1_HeaderParsingNeverRaises ==
  (op = "get_django_preferred_locales" /\ HasHeader(request)) =>
    ret.kind = "list"

\* C2 as stated: for a header whose entries are "tag;q=value" or "tag", the
\* tags are returned by descending quality, an entry with no suffix having
\* quality 1.0.
C2_DescendingQuality ==
  (/\ op = "get_django_preferred_locales"
   /\ HasHeader(request)
   /\ \A i \in 1..Len(EntriesOf(request)) :
        ~HasMalformedSuffix(EntriesOf(request)[i])) =>
    LET es == EntriesOf(request)
    IN  /\ ret.kind = "list"
        /\ \E p \in Orderings(Len(es)) :
             /\ ret.v = [i \in 1..Len(es) |-> ExpectedTag(EntryTag(es[p[i]]))]
             /\ \A i, j \in 1..Len(es) :
                  i < j => Quality(es[p[i]]) >= Quality(es[p[j]])

\* C3 as stated: when a list is returned, entries of equal quality keep the
\* order they have in the header.
C3_StableOrder ==
  (op = "get_django_preferred_locales" /\ HasHeader(request)
   /\ ret.kind = "list") =>
    LET es == EntriesOf(request)
    IN  \E p \in Orderings(Len(es)) :
          /\ ret.v = [i \in 1..Len(es) |-> ExpectedTag(EntryTag(es[p[i]]))]
          /\ \A i, j \in 1..Len(es) :
               (i < j /\ Quality(es[p[i]]) = Quality(es[p[j]])) => p[i] < p[j]

\* the tags the client prefers, as the request carries them
PreferredTagsOf(req) ==
  IF Truthy(req.accept_languages) THEN req.accept_languages.v
  ELSE IF Truthy(req.accept_language) THEN req.accept_language.v
  ELSE IF HasHeader(req)
       THEN [i \in 1..Len(EntriesOf(req)) |-> EntryTag(EntriesOf(req)[i])]
  ELSE <<>>

\* the language of a tag
LanguageOf(t) ==
  LET u == ExpectedTag(t)
  IN  IF \E i \in 1..Len(u) : u[i] = "_"
      THEN SubSeq(u, 1, (CHOOSE i \in 1..Len(u) : u[i] = "_") - 1) ELSE u

\* C5 as stated: negotiate_locale returns None or a locale whose tag is, in
\* normal form, one of available_locales; it returns None when no preferred
\* tag shares even its language with a candidate.
C5_NegotiatedIsCandidate ==
  op = "negotiate_locale" =>
    /\ \/ ret = None
       \/ /\ ret.kind = "Locale"
          /\ Truthy(arg)
          /\ \E i \in 1..Len(arg.v) :
               Join(<<"_">>, SelectSeq(ret.v, LAMBDA x : Len(x) > 0))
                 = ExpectedTag(arg.v[i])
    /\ (\/ ~Truthy(arg)
        \/ \A i \in 1..Len(PreferredTagsOf(request)), j \in 1..Len(arg.v) :
             LanguageOf(PreferredTagsOf(request)[i]) # LanguageOf(arg.v[j]))
         => ret = None

\* C6: with available_locales empty or None, negotiate_locale returns None
\* and leaves the request as it was, whatever the request holds.
C6_EmptyCandidatesGiveNone ==
  [][(op' = "negotiate_locale" /\ ~Truthy(arg'))
       => (ret' = None /\ request' = request)]_vars

\* the header "de" makes the parsing raise, and yet None is returned
C6_Witness ==
  /\ op = "negotiate_locale"
  /\ arg = List(<<>>)
  /\ request.META = Dict(Str(<<"d","e">>))
  /\ ret = None
  /\ calls = 0

(***************************************************************************)
(* normalize_locale, normalize_timezone, get_request_locale,               *)
(* get_request_timezone                                                    *)
(***************************************************************************)
normalize_locale(locale) ==
  IF ~Truthy(locale) THEN None
  ELSE IF locale.kind = "Locale" THEN locale
  ELSE LET tloc == split_locale(locale)
           made == IF Len(tloc) = 1
                   THEN NewLocale(Lower(tloc[1]), <<>>)
                   ELSE NewLocale(Lower(tloc[1]), Upper(tloc[2]))
       IN  IF made.kind = "raise" THEN None ELSE made

\* the names babel.dates.get_timezone knows
KnownTimezones == {<<"U","T","C">>, <<"C","E","T">>}

\* get_timezone(name): raises LookupError for an unknown name
get_timezone(name) ==
  IF name \in KnownTimezones THEN TzObj(name) ELSE Raise("LookupError")

normalize_timezone(tzinfo) ==
  IF ~Truthy(tzinfo) THEN None
  ELSE IF tzinfo.kind = "tzinfo" THEN tzinfo
  ELSE LET found == get_timezone(tzinfo.v)
       IN  IF found.kind = "raise" THEN None ELSE found

\* get_request_locale trying the GET parameter before the attribute
get_request_locale_get_first(req, default) ==
  LET locale == Or(req.GET.locale, req.locale)
  IN  Or(normalize_locale(locale), default)

\* the value get_request_locale stores in request.locale and returns
get_request_locale(req, default) ==
  LET locale == Or(req.locale, req.GET.locale)
  IN  Or(normalize_locale(locale), default)

\* the value get_request_timezone stores in request.tzinfo and returns
get_request_timezone(req, default) ==
  LET tzinfo == Or(req.tzinfo, req.GET.tzinfo)
  IN  Or(normalize_timezone(tzinfo), default)

(***************************************************************************)
(* Specification of the per-request lookup: get_request_locale and         *)
(* get_request_timezone are called again and again on one request, with    *)
(* any default, while the GET parameters may change between the calls.     *)
(***************************************************************************)
LocaleStrings ==
  {<<"e","n">>, <<"E","N","-","u","s">>, <<"f","r","_","F","R">>, <<"x","x">>}

LocaleDefaults ==
  {None, LocaleObj(<<"e","n">>, <<>>), LocaleObj(<<"d","e">>, <<"D","E">>),
   Str(<<"e","n">>), Str(<<"x","x">>)}

TimezoneStrings == {<<"U","T","C">>, <<"M","a","r","s">>}

TimezoneDefaults == {None, TzObj(<<"U","T","C">>), TzObj(<<"C","E","T">>)}

GETValues ==
  [locale : {None} \cup {Str(l) : l \in LocaleStrings},
   tzinfo : {None} \cup {Str(t) : t \in TimezoneStrings}]

InitRequest ==
  /\ request \in
       {[EmptyRequest EXCEPT !.locale = l, !.tzinfo = t, !.GET = g] :
          l \in {None, Str(<<"x","x">>), Str(<<"f","r","_","F","R">>),
                 LocaleObj(<<"f","r">>, <<>>)},
          t \in {None, Str(<<"M","a","r","s">>), TzObj(<<"C","E","T">>)},
          g \in GETValues}
  /\ op = "init"
  /\ arg = None
  /\ ret = None
  /\ calls = 0

GetRequestLocale ==
  /\ calls < MaxCalls
  /\ \E default \in LocaleDefaults :
       LET result == get_request_locale(request, default)
       IN  /\ request' = [request EXCEPT !.locale = result]
           /\ ret' = result
           /\ arg' = default
  /\ op' = "get_request_locale"
  /\ calls' = calls + 1

GetRequestTimezone ==
  /\ calls < MaxCalls
  /\ \E default \in TimezoneDefaults :
       LET result == get_request_timezone(request, default)
       IN  /\ request' = [request EXCEPT !.tzinfo = result]
           /\ ret' = result
           /\ arg' = default
  /\ op' = "get_request_timezone"
  /\ calls' = calls + 1

\* the framework gives the request other GET parameters
ChangeGET ==
  /\ \E g \in GETValues : request' = [request EXCEPT !.GET = g]
  /\ request' # request
  /\ UNCHANGED <<op, arg, ret, calls>>

NextRequest == GetRequestLocale \/ GetRequestTimezone \/ ChangeGET

SpecRequest == InitRequest /\ [][NextRequest]_vars

\* the Locale a raw string names when the locale database knows it, else None
Recognized(x) ==
  IF x.kind = "str" /\ Len(x.v) > 0 /\ ExpectedTag(x.v) \in KnownLocales
  THEN LET u == ExpectedTag(x.v)
       IN  IF \E i \in 1..Len(u) : u[i] = "_"
           THEN LocaleObj(SubSeq(u, 1, 2), SubSeq(u, 4, Len(u)))
           ELSE LocaleObj(u, <<>>)
  ELSE None

\* the tzinfo a raw string names when the timezone database knows it
RecognizedTz(x) ==
  IF x.kind = "str" /\ x.v \in KnownTimezones THEN TzObj(x.v) ELSE None

\* C9 as stated: when the `locale` attribute holds a string the locale
\* database does not know and the GET parameter one that it knows,
\* get_request_locale returns the locale of the GET parameter (and
\* get_request_timezone does the same with `tzinfo`).
C9_FirstRecognizedWins ==
  [][/\ (/\ calls' = calls + 1
         /\ op' = "get_request_locale"
         /\ request.locale.kind = "str" /\ Truthy(request.locale)
         /\ Recognized(request.locale) = None
         /\ Recognized(request.GET.locale) # None)
        => ret' = Recognized(request.GET.locale)
     /\ (/\ calls' = calls + 1
         /\ op' = "get_request_timezone"
         /\ request.tzinfo.kind = "str" /\ Truthy(request.tzinfo)
         /\ RecognizedTz(request.tzinfo) = None
         /\ RecognizedTz(request.GET.tzinfo) # None)
        => ret' = RecognizedTz(request.GET.tzinfo)]_vars

IsLocaleCall == calls' = calls + 1 /\ op' = "get_request_locale"

====
